---- MODULE Spec2Model ----
(***************************************************************************)
(* A model of the asitiger driver: TigerController (tigercontroller.py),   *)
(* the TigerThread wrapper (tigerthread.py) and the command encoder        *)
(* (command.py), together with a stub of the serial transport and of the   *)
(* instrument behind it.                                                   *)
(*                                                                         *)
(* Every caller thread has a program counter pc[t] and an activation       *)
(* record frame[t]; an operation of the driver is a chain of steps, one    *)
(* per access to shared state (the locks, the limits, the transport).      *)
(***************************************************************************)
EXTENDS Integers, Sequences, FiniteSets, TLC

VARIABLES
    stage_limits,   \* TigerController._stage_limits: axis -> <<lower, upper>>
    lock,           \* TigerController._lock (RLock): [owner, count]
    wrapped,        \* TRUE when the controller is the one inside a TigerThread
    tt_lock,        \* TigerThread._lock (Lock): its holder, or None
    stop_event,     \* TigerController._stop_event: "None", "clear" or "set"
    inbox,          \* transport: commands written and not yet answered
    outbox,         \* transport: responses produced and not yet read
    link,           \* transport: "up" or "down" (I/O failure)
    pos,            \* instrument: position of each axis
    busyLeft,       \* instrument: status queries still to be answered BUSY
    oofLeft,        \* instrument: CRISP state queries still answered out of focus
    pc,             \* per thread: position in the code
    frame           \* per thread: the running call, its arguments and locals

vars == <<stage_limits, lock, wrapped, tt_lock, stop_event, inbox, outbox, link,
          pos, busyLeft, oofLeft, pc, frame>>

----------------------------------------------------------------------------
(* Bounds of the model *)

\* status queries a stub instrument answers BUSY before it turns IDLE, at most
MaxBusy == 2
\* CRISP state queries a stub instrument answers out of focus, at most
MaxOof == 1
\* largest coordinate, offset and limit a caller passes; positions stay within
\* twice this range
MaxCoord == 1
\* entries of a coordinate map a caller passes, at most
MaxKeys == 2

----------------------------------------------------------------------------
(* Values *)

None == "None"

Threads == {"t1", "t2"}

\* the axes every limits table must hold
RequiredAxes == {"X", "Y", "Z"}

\* the order in which where() and home() name the axes by default
DefaultAxes == <<"X", "Y", "Z">>

\* Command tokens
BUILD == "BU"
CRISP_ERROR_NUM == "LK Y"
CRISP_GET_STATE == "LK X"
CRISP_LED == "UL X"
CRISP_LOCK_RANGE == "LR Z"
CRISP_LOOP_GAIN == "LR T"
CRISP_NA == "LR Y"
CRISP_NUM_AVG == "RT F"
CRISP_SET_STATE == "LK F"
CRISP_SNR == "EXTRA Y"
CRISP_UNLOCK == "UL"
CRISP_UPDATE_RATE == "UL Y"
HALT == "\\"
LED == "LED"
MOVE == "M"
MOVREL == "R"
SETHOME == "HM"
STATUS == "/"
WHERE == "W"

\* CRISPState: the codes of the states of the CRISP unit
FOCUS_CURVE == 97
DITHER == 102
IDLE == 79
LOCK == 83
LOG_CAL == 72
READY == 85
SET_GAIN == 67
SET_OFFSET == 111
OUT_OF_FOCUS == 83
UNLOCK == -1

NUMERAL_MAX_LENGTH == 16

SAFE_STAGE_LIMITS ==
    [a \in RequiredAxes |->
        CASE a = "X" -> <<-65000, 65000>>
          [] a = "Y" -> <<-190000, 190000>>
          [] a = "Z" -> <<-9000, 9800>>]

Abs(n) == IF n < 0 THEN -n ELSE n

\* An optional value is a sequence of length at most one.
Absent == <<>>
Some(v) == <<v>>

\* A dict in insertion order is a sequence of <<key, value>> pairs with
\* distinct keys.
Keys(d) == {d[i][1] : i \in DOMAIN d}
IsDict(d) == \A i, j \in DOMAIN d : d[i][1] = d[j][1] => i = j
Lookup(d, k) == d[CHOOSE i \in DOMAIN d : d[i][1] = k][2]
DictsOver(K, V, n) ==
    {d \in UNION {[1..m -> K \X V] : m \in 0..n} : IsDict(d)}

----------------------------------------------------------------------------
(* command.py: the command encoder *)

\* The values the encoder renders: an int, a float or a str. A float is given
\* by the text str() renders it as, and so is an int too large to compute with.
PyInt(n) == [type |-> "int", int |-> n]
PyLong(text) == [type |-> "int", text |-> text]
PyFloat(text) == [type |-> "float", text |-> text]
PyStr(text) == [type |-> "str", text |-> text]

\* a dict of ints as a dict of such values
PyInts(d) == [i \in DOMAIN d |-> <<d[i][1], PyInt(d[i][2])>>]

\* str(value), also what an f-string renders
Str(value) == IF "int" \in DOMAIN value THEN ToString(value.int) ELSE value.text

\* value[: cls._NUMERAL_MAX_LENGTH] of a text
Truncated(text) == SubSeq(text, 1, NUMERAL_MAX_LENGTH)

Join(strs, sep) ==
    LET F[i \in 0..Len(strs)] ==
            IF i = 0 THEN ""
            ELSE IF i = 1 THEN strs[1]
            ELSE F[i - 1] \o sep \o strs[i]
    IN F[Len(strs)]

\* value_is_flag = flag_overrides and value in flag_overrides: the flags are
\* strs, and no int or float equals a str
value_is_flag(value, flag_overrides) ==
    flag_overrides # {} /\ value.type = "str" /\ value.text \in flag_overrides

\* format_coordinate: whether it logs the warning of a truncation
format_coordinate_warns(value, flag_overrides) ==
    ~value_is_flag(value, flag_overrides) /\ Len(Str(value)) > NUMERAL_MAX_LENGTH

format_coordinate(axis, value, flag_overrides) ==
    IF value_is_flag(value, flag_overrides) THEN axis \o Str(value)
    ELSE IF Len(Str(value)) > NUMERAL_MAX_LENGTH
    THEN axis \o "=" \o Truncated(Str(value))
    ELSE axis \o "=" \o Str(value)

format_coordinates(coordinates, flag_overrides) ==
    Join([i \in DOMAIN coordinates |->
            format_coordinate(coordinates[i][1], coordinates[i][2], flag_overrides)],
         " ")

\* Command.format: card_address is optional; an address of 0 is falsy in the
\* source and is left out like an absent one.
Format(command, coordinates, flag_overrides, card_address) ==
    LET with_coords == IF coordinates # <<>>
                       THEN command \o " " \o format_coordinates(coordinates, flag_overrides)
                       ELSE command
    IN IF card_address # Absent /\ card_address[1] # 0
       THEN ToString(card_address[1]) \o with_coords
       ELSE with_coords

\* Command.format: the warnings it logs, one for each truncated coordinate
FormatWarnings(coordinates, flag_overrides) ==
    Cardinality({i \in DOMAIN coordinates :
                    format_coordinate_warns(coordinates[i][2], flag_overrides)})

\* format_crisp: whether it logs the warning of a truncation
format_crisp_warns(value) ==
    /\ value # Absent
    /\ value[1].type = "float"
    /\ Len(Str(value[1])) > NUMERAL_MAX_LENGTH

\* Command.format_crisp: value is optional
format_crisp(command, card_address, value) ==
    IF value = Absent THEN ToString(card_address) \o command \o "?"
    ELSE IF value[1].type = "float" /\ Len(Str(value[1])) > NUMERAL_MAX_LENGTH
    THEN ToString(card_address) \o command \o "=" \o Truncated(Str(value[1]))
    ELSE ToString(card_address) \o command \o "=" \o Str(value[1])

\* f"{token} {' '.join(axes)}"
TokenWithAxes(token, axes) == token \o " " \o Join(axes, " ")

\* What is handed to the transport: the text, and what it means to the
\* instrument (token, coordinates); by is the thread that wrote it.
Cmd(t, text, token, coordinates) ==
    [by |-> t, text |-> text, token |-> token, coords |-> coordinates]

NoCmd == Cmd(None, "", "", <<>>)

----------------------------------------------------------------------------
(* tigercontroller.py: the numerals of the responses *)

\* the value None, and an int, a float or a str a parse returns
PyNone == [type |-> "NoneType"]

Char(s, i) == SubSeq(s, i, i)
From(s, i) == SubSeq(s, i, Len(s))

DigitChars == <<"0", "1", "2", "3", "4", "5", "6", "7", "8", "9">>
IsDigit(c) == \E d \in DOMAIN DigitChars : DigitChars[d] = c
DigitValue(c) == (CHOOSE d \in DOMAIN DigitChars : DigitChars[d] = c) - 1
AllDigits(s) == s # "" /\ \A i \in 1..Len(s) : IsDigit(Char(s, i))

\* \s of a regular expression, and the characters str.strip() removes
Whitespace == {" ", "\t", "\r", "\n"}

\* the end of the longest run of digits at position i: i - 1 when there is none
DigitRunEnd(s, i) ==
    LET F[j \in (i - 1)..Len(s)] ==
            IF j = Len(s) \/ ~IsDigit(Char(s, j + 1)) THEN j ELSE F[j + 1]
    IN IF i > Len(s) THEN i - 1 ELSE F[i - 1]

\* the end of a match of [0-9]+\.[0-9]+ at position i, 0 when there is none
DecimalEnd(s, i) ==
    LET e1 == DigitRunEnd(s, i)
        e2 == DigitRunEnd(s, e1 + 2)
    IN IF e1 >= i /\ e1 + 2 <= Len(s) /\ Char(s, e1 + 1) = "." /\ e2 >= e1 + 2
       THEN e2 ELSE 0

\* the position of the first digit of a text that has one
FirstDigit(s) ==
    CHOOSE i \in 1..Len(s) :
        IsDigit(Char(s, i)) /\ \A j \in 1..(i - 1) : ~IsDigit(Char(s, j))

HasDigit(s) == \E i \in 1..Len(s) : IsDigit(Char(s, i))

\* re.sub(r'^[^0-9]*([0-9]+).*', r'\1', s) of a text of one line
SubFirstInt(s) ==
    IF HasDigit(s)
    THEN SubSeq(s, FirstDigit(s), DigitRunEnd(s, FirstDigit(s)))
    ELSE s

\* re.sub(r'^[^0-9]*([0-9]+\.[0-9]+).*', r'\1', s) of a text of one line
SubFirstDecimal(s) ==
    IF HasDigit(s) /\ DecimalEnd(s, FirstDigit(s)) > 0
    THEN SubSeq(s, FirstDigit(s), DecimalEnd(s, FirstDigit(s)))
    ELSE s

\* re.sub(prefix + r'([0-9]+\.[0-9]+)', r'\1', s), prefix a literal
RECURSIVE SubKeyedDecimal(_, _)
SubKeyedDecimal(prefix, s) ==
    LET n == Len(prefix) IN
    IF s = "" THEN ""
    ELSE IF Len(s) > n /\ SubSeq(s, 1, n) = prefix /\ DecimalEnd(s, n + 1) > 0
    THEN SubSeq(s, n + 1, DecimalEnd(s, n + 1))
            \o SubKeyedDecimal(prefix, From(s, DecimalEnd(s, n + 1) + 1))
    ELSE Char(s, 1) \o SubKeyedDecimal(prefix, From(s, 2))

\* re.sub(r'^:A\s+', '', s)
StripAck(s) ==
    LET F[j \in 2..Len(s)] ==
            IF j = Len(s) \/ Char(s, j + 1) \notin Whitespace THEN j ELSE F[j + 1]
    IN IF Len(s) >= 3 /\ SubSeq(s, 1, 2) = ":A" /\ Char(s, 3) \in Whitespace
       THEN From(s, F[2] + 1)
       ELSE s

\* s.strip(), which int() and float() apply to their argument
RECURSIVE Strip(_)
Strip(s) ==
    IF s = "" THEN s
    ELSE IF Char(s, 1) \in Whitespace THEN Strip(From(s, 2))
    ELSE IF Char(s, Len(s)) \in Whitespace THEN Strip(SubSeq(s, 1, Len(s) - 1))
    ELSE s

HasSign(s) == s # "" /\ Char(s, 1) \in {"+", "-"}
Unsigned(s) == IF HasSign(s) THEN From(s, 2) ELSE s

\* the value of a text of digits
RECURSIVE DigitsValue(_)
DigitsValue(s) ==
    IF s = "" THEN 0
    ELSE 10 * DigitsValue(SubSeq(s, 1, Len(s) - 1)) + DigitValue(Char(s, Len(s)))

\* int(s) does not raise ValueError: an optional sign and digits
IntParses(s) == AllDigits(Unsigned(Strip(s)))

\* int(s)
IntOf(s) ==
    IF Char(Strip(s), 1) = "-" THEN 0 - DigitsValue(Unsigned(Strip(s)))
    ELSE DigitsValue(Unsigned(Strip(s)))

\* the digits of a decimal before its point
IntegerPart(u) == SubSeq(u, 1, DigitRunEnd(u, 1))
\* and what follows them
AfterIntegerPart(u) == From(u, DigitRunEnd(u, 1) + 1)

\* float(s) does not raise ValueError, for a text in decimal notation: an
\* optional sign, digits, and an optional point with digits on at least one
\* side of it
FloatParses(s) ==
    LET u == Unsigned(Strip(s))
        rest == AfterIntegerPart(u)
    IN \/ IntegerPart(u) # "" /\ rest \in {"", "."}
       \/ /\ rest # "" /\ Char(rest, 1) = "."
          /\ AllDigits(From(rest, 2))

\* int(float(s)): the float cut off at its point
IntOfFloat(s) ==
    LET u == Unsigned(Strip(s))
        n == DigitsValue(IntegerPart(u))
    IN IF Char(Strip(s), 1) = "-" THEN 0 - n ELSE n

\* _cast_float(number_string): the float, or None with a warning
cast_float(number_string) ==
    IF FloatParses(StripAck(number_string))
    THEN PyFloat(Strip(StripAck(number_string)))
    ELSE PyNone

\* _cast_int(number_string): the int, or None with a warning
cast_int(number_string) ==
    IF IntParses(StripAck(number_string))
    THEN PyInt(IntOf(StripAck(number_string)))
    ELSE PyNone

----------------------------------------------------------------------------
(* Activation records *)

\* The record of a thread that runs nothing.
NoFrame ==
    [op |-> "none",           \* the operation called
     coords |-> <<>>,         \* its dict argument: coordinates, offsets, deltas
     limits_arg |-> <<>>,     \* set_stage_limits: the stage_limits argument
     crisp |-> Absent,        \* card_address_crisp
     cmd |-> NoCmd,           \* send_command: command
     resp |-> Absent,         \* send_command: response
     ret |-> "none",          \* where send_command returns to
     status |-> "none",       \* the value of status()
     curr_pos |-> <<>>,       \* the value of where()
     new_limits |-> <<>>,     \* set_stage_limits_relative: new_stage_limits
     busy |-> FALSE,          \* the value of is_busy()
     value |-> Absent,        \* a CRISP operation: its value argument
     result |-> Absent,       \* the value a CRISP operation returns
     warnings |-> 0,          \* warnings the encoder logged in this call
     outcome |-> "none",      \* "ok", or the error the call raised
     writes |-> 0,            \* calls of connection.send_command in this call
     polls |-> 0]             \* evaluations of is_busy in this call

NewFrame(op) == [NoFrame EXCEPT !.op = op]

\* The first position of each operation.
Entry(op) == op

\* Thread t goes to position label with record fr, inside the call.
Goto(t, label, fr) ==
    /\ pc' = [pc EXCEPT ![t] = label]
    /\ frame' = [frame EXCEPT ![t] = fr]
    /\ UNCHANGED tt_lock

\* The call of thread t ends with outcome ("ok" or the error raised): what the
\* caller gets stays, the arguments and the locals are gone (new_limits is kept
\* as the loop of set_stage_limits_relative left it); leaving method_with_lock
\* releases the wrapper's lock.
Return(t, outcome, fr) ==
    /\ pc' = [pc EXCEPT ![t] = "done"]
    /\ frame' = [frame EXCEPT ![t] =
            [fr EXCEPT !.outcome = outcome, !.cmd = NoCmd, !.resp = Absent,
                       !.ret = "none", !.coords = <<>>, !.limits_arg = <<>>,
                       !.value = Absent,
                       !.curr_pos = IF fr.op = "where" THEN @ ELSE <<>>]]
    /\ tt_lock' = IF wrapped THEN None ELSE tt_lock

\* A caller starts operation fr.op: directly on the controller, or through
\* TigerThread.__getattr__, which first takes the wrapper's lock.
Begin(t, fr) ==
    /\ pc[t] \in {"idle", "done"}
    /\ pc' = [pc EXCEPT ![t] = IF wrapped THEN "method_with_lock" ELSE Entry(fr.op)]
    /\ frame' = [frame EXCEPT ![t] = fr]
    /\ UNCHANGED <<stage_limits, lock, wrapped, tt_lock, stop_event, inbox, outbox,
                   link, pos, busyLeft, oofLeft>>

\* TigerThread.method_with_lock: with self._lock
MethodWithLock(t) ==
    /\ pc[t] = "method_with_lock"
    /\ tt_lock = None
    /\ tt_lock' = t
    /\ pc' = [pc EXCEPT ![t] = Entry(frame[t].op)]
    /\ UNCHANGED <<stage_limits, lock, wrapped, stop_event, inbox, outbox, link,
                   pos, busyLeft, oofLeft, frame>>

\* Thread t calls send_command(cmd), which returns to position ret.
CallSend(t, fr, cmd, ret) ==
    Goto(t, "send_command", [fr EXCEPT !.cmd = cmd, !.ret = ret, !.resp = Absent])

----------------------------------------------------------------------------
(* The transport and the instrument behind it *)

Response(cmd, kind, tok, vals) ==
    [re |-> cmd, kind |-> kind, tok |-> tok, vals |-> vals]

PosRange == (-2 * MaxCoord)..(2 * MaxCoord)

\* The position after an absolute or a relative move.
Moved(p, token, coords) ==
    [a \in DOMAIN p |->
        IF a \in Keys(coords)
        THEN IF token = MOVE THEN Lookup(coords, a) ELSE p[a] + Lookup(coords, a)
        ELSE p[a]]

\* the commands the instrument answers with the bare acknowledgment
AckTokens == {LED, SETHOME, CRISP_SET_STATE, CRISP_UNLOCK}

\* the CRISP settings whose response names the setting, as in ":A F=3.000"
KeyedTokens == {CRISP_LED, CRISP_UPDATE_RATE, CRISP_LOCK_RANGE, CRISP_NA,
                CRISP_LOOP_GAIN, CRISP_NUM_AVG}

\* the CRISP readings whose response is the acknowledgment and a numeral
BareTokens == {CRISP_ERROR_NUM, CRISP_SNR}

\* The responses to a command on a CRISP setting or reading that pass the
\* classifier: with an integer, with a decimal, and with no numeral in it.
Answers(token) ==
    IF token \in KeyedTokens
    THEN LET key == Char(token, Len(token)) IN
         {":A " \o key \o "=50", ":A " \o key \o "=3.000", ":A " \o key \o "=", ":A"}
    ELSE {":A 17", ":A 12.5", ":A n/a"}

\* The instrument answers the oldest command: commands are answered in the
\* order received. It may answer any command with an error code.
Respond ==
    /\ link = "up"
    /\ inbox # <<>>
    /\ LET cmd == Head(inbox) IN
       /\ inbox' = Tail(inbox)
       /\ \/ /\ outbox' = Append(outbox, Response(cmd, "err", ":N-1", <<>>))
             /\ UNCHANGED <<pos, busyLeft, oofLeft>>
          \/ /\ cmd.token = STATUS
             /\ outbox' = Append(outbox,
                    Response(cmd, "ack", IF busyLeft > 0 THEN "B" ELSE "N", <<>>))
             /\ busyLeft' = IF busyLeft > 0 THEN busyLeft - 1 ELSE 0
             /\ UNCHANGED <<pos, oofLeft>>
          \/ /\ cmd.token = CRISP_GET_STATE
             /\ outbox' = Append(outbox,
                    Response(cmd, "ack", IF oofLeft > 0 THEN "K" ELSE "F", <<>>))
             /\ oofLeft' = IF oofLeft > 0 THEN oofLeft - 1 ELSE 0
             /\ UNCHANGED <<pos, busyLeft>>
          \/ /\ cmd.token = WHERE
             /\ outbox' = Append(outbox,
                    Response(cmd, "ack", ":A",
                             [i \in DOMAIN DefaultAxes |-> pos[DefaultAxes[i]]]))
             /\ UNCHANGED <<pos, busyLeft, oofLeft>>
          \/ /\ cmd.token \in AckTokens
             /\ outbox' = Append(outbox, Response(cmd, "ack", ":A", <<>>))
             /\ UNCHANGED <<pos, busyLeft, oofLeft>>
          \/ /\ cmd.token \in KeyedTokens \cup BareTokens
             /\ \E text \in Answers(cmd.token) :
                    outbox' = Append(outbox, Response(cmd, "ack", text, <<>>))
             /\ UNCHANGED <<pos, busyLeft, oofLeft>>
          \/ /\ cmd.token \in {MOVE, MOVREL}
             /\ Keys(cmd.coords) \subseteq DOMAIN pos
             /\ \A a \in DOMAIN pos : Moved(pos, cmd.token, cmd.coords)[a] \in PosRange
             /\ pos' = Moved(pos, cmd.token, cmd.coords)
             /\ outbox' = Append(outbox, Response(cmd, "ack", ":A", <<>>))
             /\ UNCHANGED <<busyLeft, oofLeft>>
    /\ UNCHANGED <<stage_limits, lock, wrapped, tt_lock, stop_event, link, pc, frame>>

\* The serial link fails (the device is unplugged, the port closed): from then
\* on every write and every read of the transport raises.
LinkFails ==
    /\ link = "up"
    /\ link' = "down"
    /\ UNCHANGED <<stage_limits, lock, wrapped, tt_lock, stop_event, inbox, outbox,
                   pos, busyLeft, oofLeft, pc, frame>>

----------------------------------------------------------------------------
(* TigerController.send_command *)

Free == [owner |-> None, count |-> 0]

\* a with block that does not wait for the lock
LockAvailable_Always(t) == TRUE

\* with self._lock: an RLock is taken when free or already held by the caller
LockAvailable(t) == lock.owner \in {None, t}

Acquired(t) == [owner |-> t, count |-> IF lock.owner = t THEN lock.count + 1 ELSE 1]

\* leaving the with block
Released(t) ==
    IF lock.owner # t THEN lock
    ELSE IF lock.count > 1 THEN [lock EXCEPT !.count = @ - 1]
    ELSE Free

\* a with block that ends after the write, before the read
LockAfterWrite_Released(t) == Released(t)

\* the lock while the response is awaited
LockAfterWrite(t) == lock

\* with self._lock:
SendAcquire(t) ==
    /\ pc[t] = "send_command"
    /\ LockAvailable(t)
    /\ lock' = Acquired(t)
    /\ pc' = [pc EXCEPT ![t] = "sc_write"]
    /\ UNCHANGED <<stage_limits, wrapped, tt_lock, stop_event, inbox, outbox, link,
                   pos, busyLeft, oofLeft, frame>>

\* a write that, when the transport fails, raises with the lock still held
SendWrite_Holding(t) ==
    /\ pc[t] = "sc_write"
    /\ LET fr == [frame[t] EXCEPT !.writes = @ + 1] IN
       IF link = "up"
       THEN /\ inbox' = Append(inbox, frame[t].cmd)
            /\ Goto(t, "sc_read", fr)
       ELSE /\ Return(t, "TransportError", fr)
            /\ UNCHANGED inbox
    /\ lock' = lock
    /\ UNCHANGED <<stage_limits, wrapped, stop_event, outbox, link, pos, busyLeft,
                   oofLeft>>

\* self.connection.send_command(command); a failure of the transport leaves
\* the with block and reaches the caller
SendWrite(t) ==
    /\ pc[t] = "sc_write"
    /\ LET fr == [frame[t] EXCEPT !.writes = @ + 1] IN
       IF link = "up"
       THEN /\ inbox' = Append(inbox, frame[t].cmd)
            /\ lock' = LockAfterWrite(t)
            /\ Goto(t, "sc_read", fr)
       ELSE /\ lock' = Released(t)
            /\ Return(t, "TransportError", fr)
            /\ UNCHANGED inbox
    /\ UNCHANGED <<stage_limits, wrapped, stop_event, outbox, link, pos, busyLeft,
                   oofLeft>>

\* a read that gives up once the stop event is set
SendRead_Abortable(t) ==
    /\ pc[t] = "sc_read"
    /\ \/ /\ stop_event # "set"
          /\ link = "up"
          /\ outbox # <<>>
          /\ outbox' = Tail(outbox)
          /\ Goto(t, "sc_classify", [frame[t] EXCEPT !.resp = Some(Head(outbox))])
       \/ /\ stop_event = "set"
          /\ Return(t, "ok", frame[t])
          /\ UNCHANGED outbox
    /\ lock' = Released(t)
    /\ UNCHANGED <<stage_limits, wrapped, stop_event, inbox, link, pos, busyLeft,
                   oofLeft>>

\* a read that, when the transport fails, starts the transaction again
SendRead_Retry(t) ==
    /\ pc[t] = "sc_read"
    /\ \/ /\ link = "up"
          /\ outbox # <<>>
          /\ outbox' = Tail(outbox)
          /\ Goto(t, "sc_classify", [frame[t] EXCEPT !.resp = Some(Head(outbox))])
       \/ /\ link = "down"
          /\ Goto(t, "send_command", frame[t])
          /\ UNCHANGED outbox
    /\ lock' = Released(t)
    /\ UNCHANGED <<stage_limits, wrapped, stop_event, inbox, link, pos, busyLeft,
                   oofLeft>>

\* response = self.connection.read_response(), then the with block is left
SendRead(t) ==
    /\ pc[t] = "sc_read"
    /\ \/ /\ link = "up"
          /\ outbox # <<>>
          /\ outbox' = Tail(outbox)
          /\ Goto(t, "sc_classify", [frame[t] EXCEPT !.resp = Some(Head(outbox))])
       \/ /\ link = "down"
          /\ Return(t, "TransportError", frame[t])
          /\ UNCHANGED outbox
    /\ lock' = Released(t)
    /\ UNCHANGED <<stage_limits, wrapped, stop_event, inbox, link, pos, busyLeft,
                   oofLeft>>

\* Errors.raise_error_if_present(command, response)
ErrorPresent(response) == response.kind = "err"

\* send_command returning the response without the call of the classifier
SendClassify_Unchecked(t) ==
    /\ pc[t] = "sc_classify"
    /\ IF frame[t].ret = "return" THEN Return(t, "ok", frame[t])
       ELSE Goto(t, frame[t].ret, frame[t])
    /\ UNCHANGED <<stage_limits, lock, wrapped, stop_event, inbox, outbox, link,
                   pos, busyLeft, oofLeft>>

\* Errors.raise_error_if_present(command, response); return response: to the
\* operation that called send_command, or, when that operation returns the
\* response as it is, to the caller
SendClassify(t) ==
    /\ pc[t] = "sc_classify"
    /\ IF ErrorPresent(frame[t].resp[1])
       THEN Return(t, "InstrumentError", frame[t])
       ELSE IF frame[t].ret = "return" THEN Return(t, "ok", frame[t])
       ELSE Goto(t, frame[t].ret, frame[t])
    /\ UNCHANGED <<stage_limits, lock, wrapped, stop_event, inbox, outbox, link,
                   pos, busyLeft, oofLeft>>

----------------------------------------------------------------------------
(* Status queries *)

\* status.py: Status(response) and CRISPStatus(state)
StatusOf(tok) == IF tok = "B" THEN "BUSY" ELSE IF tok = "N" THEN "IDLE" ELSE "invalid"
CRISPStatusOf(tok) == IF tok = "K" THEN "OUT_OF_FOCUS" ELSE "IN_FOCUS"

\* the card addresses callers pass for the CRISP unit
CrispAddresses == {2}

\* status(): self.send_command(Command.STATUS)
Status(t) ==
    /\ pc[t] = "status"
    /\ CallSend(t, frame[t], Cmd(t, STATUS, STATUS, <<>>), "status_ret")
    /\ UNCHANGED <<stage_limits, lock, wrapped, stop_event, inbox, outbox, link,
                   pos, busyLeft, oofLeft>>

\* a loop that waits while the instrument is not busy
LoopContinues_Inverted(busy) == ~busy

\* while self.is_busy(...): self.sleep(poll_interval_s)
LoopContinues(busy) == busy

\* is_busy returns busy: to the caller, or to the loop of wait_until_idle
IsBusyReturns(t, fr, busy) ==
    LET fr2 == [fr EXCEPT !.busy = busy] IN
    IF fr.op = "is_busy" THEN Return(t, "ok", fr2)
    ELSE IF LoopContinues(busy) THEN Goto(t, "sleep", fr2)
    ELSE Return(t, "ok", fr2)

\* status() returns Status(response): to the caller, or into is_busy, which
\* returns at once without a CRISP address or when BUSY, and asks the CRISP
\* unit otherwise
StatusReturn(t) ==
    /\ pc[t] = "status_ret"
    /\ LET st == StatusOf(frame[t].resp[1].tok)
           fr == [frame[t] EXCEPT !.status = st]
       IN IF st = "invalid" THEN Return(t, "ValueError", fr)
          ELSE IF fr.op = "status" THEN Return(t, "ok", fr)
          ELSE IF fr.crisp = Absent THEN IsBusyReturns(t, fr, st = "BUSY")
          ELSE IF st = "BUSY" THEN IsBusyReturns(t, fr, TRUE)
          ELSE Goto(t, "status_crisp", fr)
    /\ UNCHANGED <<stage_limits, lock, wrapped, stop_event, inbox, outbox, link,
                   pos, busyLeft, oofLeft>>

\* status_crisp(card_address): crisp_get_set_state(card_address, None)
StatusCrisp(t) ==
    /\ pc[t] = "status_crisp"
    /\ CallSend(t, frame[t],
                Cmd(t, format_crisp(CRISP_GET_STATE, frame[t].crisp[1], Absent),
                    CRISP_GET_STATE, <<>>),
                "status_crisp_ret")
    /\ UNCHANGED <<stage_limits, lock, wrapped, stop_event, inbox, outbox, link,
                   pos, busyLeft, oofLeft>>

\* is_busy taking every CRISP state but OUT_OF_FOCUS for busy
StatusCrispReturn_InFocus(t) ==
    /\ pc[t] = "status_crisp_ret"
    /\ IsBusyReturns(t, frame[t],
                     CRISPStatusOf(frame[t].resp[1].tok) # "OUT_OF_FOCUS")
    /\ UNCHANGED <<stage_limits, lock, wrapped, stop_event, inbox, outbox, link,
                   pos, busyLeft, oofLeft>>

\* ... or self.status_crisp(card_address_crisp) is CRISPStatus.OUT_OF_FOCUS
StatusCrispReturn(t) ==
    /\ pc[t] = "status_crisp_ret"
    /\ IsBusyReturns(t, frame[t],
                     CRISPStatusOf(frame[t].resp[1].tok) = "OUT_OF_FOCUS")
    /\ UNCHANGED <<stage_limits, lock, wrapped, stop_event, inbox, outbox, link,
                   pos, busyLeft, oofLeft>>

\* is_busy(card_address_crisp): one evaluation, which starts with status()
IsBusy(t) ==
    /\ pc[t] = "is_busy"
    /\ Goto(t, "status", [frame[t] EXCEPT !.polls = @ + 1])
    /\ UNCHANGED <<stage_limits, lock, wrapped, stop_event, inbox, outbox, link,
                   pos, busyLeft, oofLeft>>

\* wait_until_idle(poll_interval_s, card_address_crisp): the loop is entered
WaitUntilIdle(t) ==
    /\ pc[t] = "wait_until_idle"
    /\ Goto(t, "is_busy", frame[t])
    /\ UNCHANGED <<stage_limits, lock, wrapped, stop_event, inbox, outbox, link,
                   pos, busyLeft, oofLeft>>

\* sleep(duration) returns: the duration has passed, or the stop event is set;
\* the loop of wait_until_idle then evaluates is_busy again
Sleep(t) ==
    /\ pc[t] = "sleep"
    /\ Goto(t, "is_busy", frame[t])
    /\ UNCHANGED <<stage_limits, lock, wrapped, stop_event, inbox, outbox, link,
                   pos, busyLeft, oofLeft>>

\* The owner of the stop event sets it.
SetStop ==
    /\ stop_event = "clear"
    /\ stop_event' = "set"
    /\ UNCHANGED <<stage_limits, lock, wrapped, tt_lock, inbox, outbox, link, pos,
                   busyLeft, oofLeft, pc, frame>>

\* where(): self.send_command(f"{Command.WHERE} {' '.join(axes)}")
Where(t) ==
    /\ pc[t] = "where"
    /\ CallSend(t, frame[t], Cmd(t, TokenWithAxes(WHERE, DefaultAxes), WHERE, <<>>),
                "where_ret")
    /\ UNCHANGED <<stage_limits, lock, wrapped, stop_event, inbox, outbox, link,
                   pos, busyLeft, oofLeft>>

\* {axis: cast(coord) for axis, coord in zip(axes, coordinates)}
ZipAxes(axes, vals) ==
    [a \in {axes[i] : i \in DOMAIN axes \cap DOMAIN vals} |->
        vals[CHOOSE i \in DOMAIN axes : axes[i] = a]]

\* where() returns the positions: to the caller, or to set_stage_limits_relative
WhereReturn(t) ==
    /\ pc[t] = "where_ret"
    /\ LET fr == [frame[t] EXCEPT !.curr_pos = ZipAxes(DefaultAxes, frame[t].resp[1].vals)]
       IN IF fr.op = "where" THEN Return(t, "ok", fr)
          ELSE Goto(t, "sslr_compute", fr)
    /\ UNCHANGED <<stage_limits, lock, wrapped, stop_event, inbox, outbox, link,
                   pos, busyLeft, oofLeft>>

----------------------------------------------------------------------------
(* Stage limits and motion *)

\* the guard without its test of the upper bound
coordinate_is_out_of_bounds_NoUpperBound(coordinates) ==
    \E i \in DOMAIN coordinates :
        LET key == coordinates[i][1]
            val == coordinates[i][2]
        IN \/ key \notin DOMAIN stage_limits
           \/ val < stage_limits[key][1]

\* coordinate_is_out_of_bounds(coordinates); _stage_limits is never None, the
\* constructor reads its keys
coordinate_is_out_of_bounds(coordinates) ==
    \E i \in DOMAIN coordinates :
        LET key == coordinates[i][1]
            val == coordinates[i][2]
        IN \/ key \notin DOMAIN stage_limits
           \/ val < stage_limits[key][1]
           \/ val > stage_limits[key][2]

\* move(coordinates)
Move(t) ==
    /\ pc[t] = "move"
    /\ IF coordinate_is_out_of_bounds(frame[t].coords)
       THEN Return(t, "ParameterOutOfRangeError", frame[t])
       ELSE CallSend(t, [frame[t] EXCEPT !.warnings =
                                FormatWarnings(PyInts(frame[t].coords), {})],
                     Cmd(t, Format(MOVE, PyInts(frame[t].coords), {}, Absent), MOVE,
                         frame[t].coords),
                     "return")
    /\ UNCHANGED <<stage_limits, lock, wrapped, stop_event, inbox, outbox, link,
                   pos, busyLeft, oofLeft>>

\* move_relative(offsets)
MoveRelative(t) ==
    /\ pc[t] = "move_relative"
    /\ CallSend(t, [frame[t] EXCEPT !.warnings =
                           FormatWarnings(PyInts(frame[t].coords), {})],
                Cmd(t, Format(MOVREL, PyInts(frame[t].coords), {}, Absent), MOVREL,
                    frame[t].coords),
                "return")
    /\ UNCHANGED <<stage_limits, lock, wrapped, stop_event, inbox, outbox, link,
                   pos, busyLeft, oofLeft>>

\* the check of the required axes forgetting the Z axis
HasRequiredAxes_WithoutZ(limits) == {"X", "Y"} \subseteq DOMAIN limits

\* all(ax in stage_limits.keys() for ax in ['X', 'Y', 'Z'])
HasRequiredAxes(limits) == RequiredAxes \subseteq DOMAIN limits

\* set_stage_limits(stage_limits)
SetStageLimits(t) ==
    /\ pc[t] = "set_stage_limits"
    /\ IF ~HasRequiredAxes(frame[t].limits_arg)
       THEN /\ Return(t, "MissingParametersError", frame[t])
            /\ UNCHANGED stage_limits
       ELSE /\ stage_limits' = frame[t].limits_arg
            /\ Return(t, "ok", frame[t])
    /\ UNCHANGED <<lock, wrapped, stop_event, inbox, outbox, link, pos, busyLeft,
                   oofLeft>>

\* set_stage_limits_relative(relative_limits): curr_pos = self.where()
SetStageLimitsRelative(t) ==
    /\ pc[t] = "set_stage_limits_relative"
    /\ Goto(t, "where", frame[t])
    /\ UNCHANGED <<stage_limits, lock, wrapped, stop_event, inbox, outbox, link,
                   pos, busyLeft, oofLeft>>

\* new_stage_limits[key] = (curr_pos[key] - relative_limits[key],
\*                          curr_pos[key] + relative_limits[key])
RelativePair(curr, delta) == <<curr - delta, curr + delta>>

\* The loop of set_stage_limits_relative over the first n keys: the error it
\* raised, if any, and new_stage_limits as far as it got.
RECURSIVE RelativeLoop(_, _, _, _)
RelativeLoop(limits, curr_pos, relative_limits, n) ==
    IF n = 0 THEN [error |-> "none", limits |-> limits]
    ELSE LET before == RelativeLoop(limits, curr_pos, relative_limits, n - 1)
             key == relative_limits[n][1]
             delta == relative_limits[n][2]
         IN IF before.error # "none" THEN before
            ELSE IF delta > 0
            THEN [before EXCEPT !.error = "ParameterOutOfRangeError"]
            ELSE IF key \notin DOMAIN curr_pos
            THEN [before EXCEPT !.error = "KeyError"]
            ELSE [before EXCEPT !.limits =
                    [a \in DOMAIN before.limits \cup {key} |->
                        IF a = key THEN RelativePair(curr_pos[key], delta)
                        ELSE before.limits[a]]]

\* new_stage_limits aliasing the table of the controller instead of copying it
StageLimitsAfterRaise_Aliased(current, partial) == partial

\* get_stage_limits() returns a copy, so a raise in the loop leaves the table
\* of the controller as it was, whatever new_stage_limits holds by then
StageLimitsAfterRaise(current, partial) == current

\* new_stage_limits = self.get_stage_limits() and the loop over the keys
SslrCompute(t) ==
    /\ pc[t] = "sslr_compute"
    /\ LET r == RelativeLoop(stage_limits, frame[t].curr_pos, frame[t].coords,
                             Len(frame[t].coords))
           fr == [frame[t] EXCEPT !.new_limits = r.limits]
       IN IF r.error # "none"
          THEN /\ stage_limits' = StageLimitsAfterRaise(stage_limits, r.limits)
               /\ Return(t, r.error, fr)
          ELSE /\ Goto(t, "sslr_set", fr)
               /\ UNCHANGED stage_limits
    /\ UNCHANGED <<lock, wrapped, stop_event, inbox, outbox, link, pos, busyLeft,
                   oofLeft>>

\* self.set_stage_limits(stage_limits=new_stage_limits)
SslrSet(t) ==
    /\ pc[t] = "sslr_set"
    /\ IF ~HasRequiredAxes(frame[t].new_limits)
       THEN /\ Return(t, "MissingParametersError", frame[t])
            /\ UNCHANGED stage_limits
       ELSE /\ stage_limits' = frame[t].new_limits
            /\ Return(t, "ok", frame[t])
    /\ UNCHANGED <<lock, wrapped, stop_event, inbox, outbox, link, pos, busyLeft,
                   oofLeft>>

----------------------------------------------------------------------------
(* Commands with a card address, with flags, and the CRISP operations *)

\* led(led_brightnesses, card_address)
Led(t) ==
    /\ pc[t] = "led"
    /\ CallSend(t, [frame[t] EXCEPT !.warnings = FormatWarnings(frame[t].coords, {})],
                Cmd(t, Format(LED, frame[t].coords, {}, frame[t].crisp), LED, <<>>),
                "return")
    /\ UNCHANGED <<stage_limits, lock, wrapped, stop_event, inbox, outbox, link,
                   pos, busyLeft, oofLeft>>

\* set_home(axes)
SetHome(t) ==
    /\ pc[t] = "set_home"
    /\ CallSend(t, [frame[t] EXCEPT !.warnings = FormatWarnings(frame[t].coords, {"+"})],
                Cmd(t, Format(SETHOME, frame[t].coords, {"+"}, Absent), SETHOME, <<>>),
                "return")
    /\ UNCHANGED <<stage_limits, lock, wrapped, stop_event, inbox, outbox, link,
                   pos, busyLeft, oofLeft>>

\* a test that takes every value, None too, for a state to set
Truthy_Always(value) == TRUE

\* if value: of an optional int
Truthy(value) == value # Absent /\ value[1] # PyInt(0)

\* crisp_get_set_state(card_address, value)
CrispGetSetState(t) ==
    /\ pc[t] = "crisp_get_set_state"
    /\ LET card_address == frame[t].crisp[1]
           value == frame[t].value
           this_command == IF Truthy(value) THEN CRISP_SET_STATE ELSE CRISP_GET_STATE
       IN IF value = Some(PyInt(UNLOCK))
          THEN CallSend(t, frame[t],
                        Cmd(t, ToString(card_address) \o CRISP_UNLOCK, CRISP_UNLOCK, <<>>),
                        "crisp_get_set_state_ret")
          ELSE CallSend(t, [frame[t] EXCEPT !.warnings =
                                IF format_crisp_warns(value) THEN 1 ELSE 0],
                        Cmd(t, format_crisp(this_command, card_address, value),
                            this_command, <<>>),
                        "crisp_get_set_state_ret")
    /\ UNCHANGED <<stage_limits, lock, wrapped, stop_event, inbox, outbox, link,
                   pos, busyLeft, oofLeft>>

\* The call of thread t returns value.
ReturnValue(t, value) ==
    Return(t, "ok", [frame[t] EXCEPT !.result = Some(value)])

\* return re.sub(r'^:A\s+', '', response)
CrispGetSetStateReturn(t) ==
    /\ pc[t] = "crisp_get_set_state_ret"
    /\ ReturnValue(t, PyStr(StripAck(frame[t].resp[1].tok)))
    /\ UNCHANGED <<stage_limits, lock, wrapped, stop_event, inbox, outbox, link,
                   pos, busyLeft, oofLeft>>

\* self.send_command(Command.format_crisp(token, card_address, value)): with
\* a value the response is returned as it is, without one it is parsed
CrispSend(t, token) ==
    /\ CallSend(t, [frame[t] EXCEPT !.warnings =
                        IF format_crisp_warns(frame[t].value) THEN 1 ELSE 0],
                Cmd(t, format_crisp(token, frame[t].crisp[1], frame[t].value),
                    token, <<>>),
                IF frame[t].value # Absent THEN "return" ELSE frame[t].op \o "_ret")
    /\ UNCHANGED <<stage_limits, lock, wrapped, stop_event, inbox, outbox, link,
                   pos, busyLeft, oofLeft>>

\* int(float(text)): the int, or the ValueError float() raises
ReturnIntOfFloat(t, text) ==
    IF FloatParses(text) THEN ReturnValue(t, PyInt(IntOfFloat(text)))
    ELSE Return(t, "ValueError", frame[t])

\* crisp_get_set_led_intensity(card_address, value)
CrispGetSetLedIntensity(t) ==
    /\ pc[t] = "crisp_get_set_led_intensity"
    /\ CrispSend(t, CRISP_LED)

CrispGetSetLedIntensityReturn(t) ==
    /\ pc[t] = "crisp_get_set_led_intensity_ret"
    /\ ReturnValue(t, cast_int(SubFirstInt(frame[t].resp[1].tok)))
    /\ UNCHANGED <<stage_limits, lock, wrapped, stop_event, inbox, outbox, link,
                   pos, busyLeft, oofLeft>>

\* crisp_get_set_lock_range(card_address, value)
CrispGetSetLockRange(t) ==
    /\ pc[t] = "crisp_get_set_lock_range"
    /\ CrispSend(t, CRISP_LOCK_RANGE)

CrispGetSetLockRangeReturn(t) ==
    /\ pc[t] = "crisp_get_set_lock_range_ret"
    /\ ReturnValue(t, cast_float(SubKeyedDecimal(":A Z=", frame[t].resp[1].tok)))
    /\ UNCHANGED <<stage_limits, lock, wrapped, stop_event, inbox, outbox, link,
                   pos, busyLeft, oofLeft>>

\* crisp_get_set_loop_gain(card_address, value)
CrispGetSetLoopGain(t) ==
    /\ pc[t] = "crisp_get_set_loop_gain"
    /\ CrispSend(t, CRISP_LOOP_GAIN)

CrispGetSetLoopGainReturn(t) ==
    /\ pc[t] = "crisp_get_set_loop_gain_ret"
    /\ ReturnIntOfFloat(t, SubKeyedDecimal(":A T=", frame[t].resp[1].tok))
    /\ UNCHANGED <<stage_limits, lock, wrapped, stop_event, inbox, outbox, link,
                   pos, busyLeft, oofLeft>>

\* crisp_get_set_num_avg(card_address, value)
CrispGetSetNumAvg(t) ==
    /\ pc[t] = "crisp_get_set_num_avg"
    /\ CrispSend(t, CRISP_NUM_AVG)

CrispGetSetNumAvgReturn(t) ==
    /\ pc[t] = "crisp_get_set_num_avg_ret"
    /\ ReturnIntOfFloat(t, SubKeyedDecimal(":A F=", frame[t].resp[1].tok))
    /\ UNCHANGED <<stage_limits, lock, wrapped, stop_event, inbox, outbox, link,
                   pos, busyLeft, oofLeft>>

\* crisp_get_set_objective_na(card_address, value)
CrispGetSetObjectiveNa(t) ==
    /\ pc[t] = "crisp_get_set_objective_na"
    /\ CrispSend(t, CRISP_NA)

CrispGetSetObjectiveNaReturn(t) ==
    /\ pc[t] = "crisp_get_set_objective_na_ret"
    /\ ReturnValue(t, cast_float(SubFirstDecimal(frame[t].resp[1].tok)))
    /\ UNCHANGED <<stage_limits, lock, wrapped, stop_event, inbox, outbox, link,
                   pos, busyLeft, oofLeft>>

\* crisp_get_set_update_rate(card_address, value)
CrispGetSetUpdateRate(t) ==
    /\ pc[t] = "crisp_get_set_update_rate"
    /\ CrispSend(t, CRISP_UPDATE_RATE)

CrispGetSetUpdateRateReturn(t) ==
    /\ pc[t] = "crisp_get_set_update_rate_ret"
    /\ ReturnValue(t, cast_int(SubFirstInt(frame[t].resp[1].tok)))
    /\ UNCHANGED <<stage_limits, lock, wrapped, stop_event, inbox, outbox, link,
                   pos, busyLeft, oofLeft>>

\* crisp_get_snr(card_address)
CrispGetSnr(t) ==
    /\ pc[t] = "crisp_get_snr"
    /\ CrispSend(t, CRISP_SNR)

CrispGetSnrReturn(t) ==
    /\ pc[t] = "crisp_get_snr_ret"
    /\ ReturnValue(t, cast_float(frame[t].resp[1].tok))
    /\ UNCHANGED <<stage_limits, lock, wrapped, stop_event, inbox, outbox, link,
                   pos, busyLeft, oofLeft>>

\* crisp_get_err(card_address)
CrispGetErr(t) ==
    /\ pc[t] = "crisp_get_err"
    /\ CrispSend(t, CRISP_ERROR_NUM)

CrispGetErrReturn(t) ==
    /\ pc[t] = "crisp_get_err_ret"
    /\ ReturnValue(t, cast_int(frame[t].resp[1].tok))
    /\ UNCHANGED <<stage_limits, lock, wrapped, stop_event, inbox, outbox, link,
                   pos, busyLeft, oofLeft>>

----------------------------------------------------------------------------
(* Transactions and polling: threads query and wait on one controller *)

Invoke(t) ==
    \E op \in {"status", "where", "is_busy", "wait_until_idle"},
       crisp \in {Absent} \cup {Some(a) : a \in CrispAddresses} :
        /\ op \in {"status", "where"} => crisp = Absent
        /\ Begin(t, [NewFrame(op) EXCEPT !.crisp = crisp])

Init ==
    /\ stage_limits = SAFE_STAGE_LIMITS
    /\ lock = Free
    /\ wrapped \in BOOLEAN
    /\ tt_lock = None
    /\ stop_event \in IF wrapped THEN {"None"} ELSE {"None", "clear"}
    /\ inbox = <<>>
    /\ outbox = <<>>
    /\ link = "up"
    /\ pos = [a \in RequiredAxes |-> 0]
    /\ busyLeft \in 0..MaxBusy
    /\ oofLeft \in 0..MaxOof
    /\ pc = [t \in Threads |-> "idle"]
    /\ frame = [t \in Threads |-> NoFrame]

Next ==
    \/ \E t \in Threads :
        \/ Invoke(t)
        \/ MethodWithLock(t)
        \/ SendAcquire(t)
        \/ SendWrite(t)
        \/ SendRead(t)
        \/ SendClassify(t)
        \/ Status(t)
        \/ StatusReturn(t)
        \/ StatusCrisp(t)
        \/ StatusCrispReturn(t)
        \/ IsBusy(t)
        \/ WaitUntilIdle(t)
        \/ Sleep(t)
        \/ Where(t)
        \/ WhereReturn(t)
    \/ Respond
    \/ SetStop

Spec == Init /\ [][Next]_vars

----------------------------------------------------------------------------
(* Failures: threads query a controller whose serial link may fail *)

InitFaults ==
    /\ stage_limits = SAFE_STAGE_LIMITS
    /\ lock = Free
    /\ wrapped = FALSE
    /\ tt_lock = None
    /\ stop_event = "None"
    /\ inbox = <<>>
    /\ outbox = <<>>
    /\ link = "up"
    /\ pos = [a \in RequiredAxes |-> 0]
    /\ busyLeft \in 0..MaxBusy
    /\ oofLeft \in 0..MaxOof
    /\ pc = [t \in Threads |-> "idle"]
    /\ frame = [t \in Threads |-> NoFrame]

NextFaults ==
    \/ \E t \in Threads :
        \/ Invoke(t)
        \/ SendAcquire(t)
        \/ SendWrite(t)
        \/ SendRead(t)
        \/ SendClassify(t)
        \/ Status(t)
        \/ StatusReturn(t)
        \/ StatusCrisp(t)
        \/ StatusCrispReturn(t)
        \/ IsBusy(t)
        \/ WaitUntilIdle(t)
        \/ Sleep(t)
        \/ Where(t)
        \/ WhereReturn(t)
    \/ Respond
    \/ LinkFails

SpecFaults == InitFaults /\ [][NextFaults]_vars

----------------------------------------------------------------------------
(* Commands: one caller sends encoded commands and reads CRISP values *)

TheCaller == {"t1"}

\* the card addresses a caller passes
CardAddresses == {0, 1, 2}

\* the codes of CRISPState
StateCodes == {FOCUS_CURVE, DITHER, IDLE, LOCK, LOG_CAL, READY, SET_GAIN,
               SET_OFFSET, OUT_OF_FOCUS, UNLOCK}

\* the values a caller passes to the encoder: an int, floats whose text has 3,
\* 16 and 19 characters, an int and a str of 17 characters, and a flag
Numerals == {PyInt(1234), PyFloat("0.5"), PyFloat("0.12345678901234"),
             PyFloat("0.12345678901234568"), PyLong("12345678901234567"),
             PyStr("1234567.123456789")}
Flags == {PyStr("+")}

\* the operations on a CRISP setting, which take a value or None
CrispGetSetOps == {"crisp_get_set_led_intensity", "crisp_get_set_lock_range",
                   "crisp_get_set_loop_gain", "crisp_get_set_num_avg",
                   "crisp_get_set_objective_na", "crisp_get_set_update_rate"}

\* the operations on a CRISP reading
CrispGetOps == {"crisp_get_snr", "crisp_get_err"}

InvokeFormat(t) ==
    \E op \in {"led", "set_home"},
       c \in DictsOver({"X", "Y"}, Numerals \cup Flags, MaxKeys),
       a \in {Absent} \cup {Some(n) : n \in CardAddresses} :
        /\ op = "set_home" => a = Absent
        /\ Begin(t, [NewFrame(op) EXCEPT !.coords = c, !.crisp = a])

InvokeCrispState(t) ==
    \E a \in CardAddresses, v \in {Absent} \cup {Some(PyInt(c)) : c \in StateCodes} :
        Begin(t, [NewFrame("crisp_get_set_state") EXCEPT !.crisp = Some(a), !.value = v])

InvokeCrispNumeral(t) ==
    \E op \in CrispGetSetOps \cup CrispGetOps, a \in CardAddresses,
       v \in {Absent} \cup {Some(n) : n \in Numerals} :
        /\ op \in CrispGetOps => v = Absent
        /\ Begin(t, [NewFrame(op) EXCEPT !.crisp = Some(a), !.value = v])

InitCommands ==
    /\ stage_limits = SAFE_STAGE_LIMITS
    /\ lock = Free
    /\ wrapped = FALSE
    /\ tt_lock = None
    /\ stop_event = "None"
    /\ inbox = <<>>
    /\ outbox = <<>>
    /\ link = "up"
    /\ pos = [a \in RequiredAxes |-> 0]
    /\ busyLeft = 0
    /\ oofLeft \in 0..MaxOof
    /\ pc = [t \in TheCaller |-> "idle"]
    /\ frame = [t \in TheCaller |-> NoFrame]

NextCommands ==
    \/ \E t \in TheCaller :
        \/ InvokeFormat(t)
        \/ InvokeCrispState(t)
        \/ InvokeCrispNumeral(t)
        \/ Led(t)
        \/ SetHome(t)
        \/ CrispGetSetState(t)
        \/ CrispGetSetStateReturn(t)
        \/ CrispGetSetLedIntensity(t)
        \/ CrispGetSetLedIntensityReturn(t)
        \/ CrispGetSetLockRange(t)
        \/ CrispGetSetLockRangeReturn(t)
        \/ CrispGetSetLoopGain(t)
        \/ CrispGetSetLoopGainReturn(t)
        \/ CrispGetSetNumAvg(t)
        \/ CrispGetSetNumAvgReturn(t)
        \/ CrispGetSetObjectiveNa(t)
        \/ CrispGetSetObjectiveNaReturn(t)
        \/ CrispGetSetUpdateRate(t)
        \/ CrispGetSetUpdateRateReturn(t)
        \/ CrispGetSnr(t)
        \/ CrispGetSnrReturn(t)
        \/ CrispGetErr(t)
        \/ CrispGetErrReturn(t)
        \/ SendAcquire(t)
        \/ SendWrite(t)
        \/ SendRead(t)
        \/ SendClassify(t)
    \/ Respond

SpecCommands == InitCommands /\ [][NextCommands]_vars

----------------------------------------------------------------------------
(* Limits and motion: one caller configures the limits and moves the stage *)

Coords == (-MaxCoord)..MaxCoord

\* the axes a caller names in a move: one axis of the stage, and one the
\* limits table does not hold
MoveAxes == {"X", "F"}

\* the axes a caller names in set_stage_limits_relative
LimitAxes == {"X", "Y"}

\* the deltas of set_stage_limits_relative: margins, and a positive one
Deltas == {-1, 0, 1}

\* the tables passed to the constructor and to set_stage_limits: lower <= upper
\* on every axis, with or without the Z axis
LimitTables ==
    {[a \in A |-> <<lo, hi>>] :
        A \in {RequiredAxes, {"X", "Y"}}, lo \in (-MaxCoord)..0, hi \in 0..MaxCoord}

InvokeMotion(t) ==
    \E op \in {"move", "move_relative"}, c \in DictsOver(MoveAxes, Coords, MaxKeys) :
        Begin(t, [NewFrame(op) EXCEPT !.coords = c])

InvokeSetLimits(t) ==
    \E l \in LimitTables :
        Begin(t, [NewFrame("set_stage_limits") EXCEPT !.limits_arg = l])

InvokeSetLimitsRelative(t) ==
    \E d \in DictsOver(LimitAxes, Deltas, MaxKeys) :
        Begin(t, [NewFrame("set_stage_limits_relative") EXCEPT !.coords = d])

InitLimits ==
    /\ stage_limits \in {l \in LimitTables : HasRequiredAxes(l)}
    /\ lock = Free
    /\ wrapped = FALSE
    /\ tt_lock = None
    /\ stop_event = "None"
    /\ inbox = <<>>
    /\ outbox = <<>>
    /\ link = "up"
    /\ pos = [a \in RequiredAxes |-> 0]
    /\ busyLeft = 0
    /\ oofLeft = 0
    /\ pc = [t \in TheCaller |-> "idle"]
    /\ frame = [t \in TheCaller |-> NoFrame]

NextLimits ==
    \/ \E t \in TheCaller :
        \/ InvokeMotion(t)
        \/ InvokeSetLimits(t)
        \/ InvokeSetLimitsRelative(t)
        \/ Move(t)
        \/ MoveRelative(t)
        \/ SetStageLimits(t)
        \/ SetStageLimitsRelative(t)
        \/ Where(t)
        \/ WhereReturn(t)
        \/ SslrCompute(t)
        \/ SslrSet(t)
        \/ SendAcquire(t)
        \/ SendWrite(t)
        \/ SendRead(t)
        \/ SendClassify(t)
    \/ Respond

SpecLimits == InitLimits /\ [][NextLimits]_vars

----------------------------------------------------------------------------
(* Concurrent limits and motion: one thread moves the stage while another *)
(* configures the limits of the same controller                            *)

Mover == "t1"
Configurer == "t2"

\* the mover moves the X axis
InvokeMove(t) ==
    \E c \in DictsOver({"X"}, Coords, 1) :
        Begin(t, [NewFrame("move") EXCEPT !.coords = c])

\* the configurer sets the limits around the position of the X axis
InvokeSetXLimitsRelative(t) ==
    \E d \in DictsOver({"X"}, Deltas, 1) :
        Begin(t, [NewFrame("set_stage_limits_relative") EXCEPT !.coords = d])

InitRace ==
    /\ stage_limits \in {l \in LimitTables : HasRequiredAxes(l)}
    /\ lock = Free
    /\ wrapped = FALSE
    /\ tt_lock = None
    /\ stop_event = "None"
    /\ inbox = <<>>
    /\ outbox = <<>>
    /\ link = "up"
    /\ pos = [a \in RequiredAxes |-> 0]
    /\ busyLeft = 0
    /\ oofLeft = 0
    /\ pc = [t \in {Mover, Configurer} |-> "idle"]
    /\ frame = [t \in {Mover, Configurer} |-> NoFrame]

NextRace ==
    \/ InvokeMove(Mover)
    \/ InvokeSetLimits(Configurer)
    \/ InvokeSetXLimitsRelative(Configurer)
    \/ \E t \in {Mover, Configurer} :
        \/ Move(t)
        \/ SetStageLimits(t)
        \/ SetStageLimitsRelative(t)
        \/ Where(t)
        \/ WhereReturn(t)
        \/ SslrCompute(t)
        \/ SslrSet(t)
        \/ SendAcquire(t)
        \/ SendWrite(t)
        \/ SendRead(t)
        \/ SendClassify(t)
    \/ Respond

SpecRace == InitRace /\ [][NextRace]_vars

----------------------------------------------------------------------------
(* Properties of the stage-limit guard *)

\* An axis of the map is missing from the limits or lies outside its bounds.
Unsafe(coordinates, limits) ==
    \E i \in DOMAIN coordinates :
        \/ coordinates[i][1] \notin DOMAIN limits
        \/ coordinates[i][2] < limits[coordinates[i][1]][1]
        \/ coordinates[i][2] > limits[coordinates[i][1]][2]

InSendCommand == {"send_command", "sc_write", "sc_read", "sc_classify"}

\* C1: a move with an axis missing from the limits or outside its bounds raises
\* ParameterOutOfRangeError and hands nothing to the transport; a move with
\* every axis within its bounds hands exactly one M command with those
\* coordinates to the transport, so that every M command on the wire lies
\* within the limits.
C1_MoveGuard ==
    /\ [][\A t \in DOMAIN pc :
            (pc[t] = "move" /\ pc'[t] # "move") =>
                IF Unsafe(frame[t].coords, stage_limits)
                THEN /\ pc'[t] = "done"
                     /\ frame'[t].outcome = "ParameterOutOfRangeError"
                     /\ frame'[t].writes = 0
                     /\ inbox' = inbox
                ELSE /\ pc'[t] = "send_command"
                     /\ frame'[t].cmd.token = MOVE
                     /\ frame'[t].cmd.coords = frame[t].coords]_vars
    /\ [](\A t \in DOMAIN pc :
            frame[t].op = "move" =>
                /\ pc[t] = "done" =>
                     IF frame[t].outcome = "ParameterOutOfRangeError"
                     THEN frame[t].writes = 0
                     ELSE frame[t].writes = 1
                /\ pc[t] \in InSendCommand =>
                     /\ frame[t].cmd.coords = frame[t].coords
                     /\ frame[t].writes = IF pc[t] \in {"send_command", "sc_write"}
                                          THEN 0 ELSE 1
                     /\ frame[t].coords = <<<<"X", 1>>>> => frame[t].cmd.text = "M X=1")
    /\ [](\A i \in DOMAIN inbox :
            inbox[i].token = MOVE =>
                /\ ~Unsafe(inbox[i].coords, stage_limits)
                /\ inbox[i] = frame[inbox[i].by].cmd)

\* a move was refused: it raised and wrote nothing, while the stage could move
C1_Witness ==
    \E t \in DOMAIN pc :
        /\ pc[t] = "done"
        /\ frame[t].op = "move"
        /\ frame[t].outcome = "ParameterOutOfRangeError"
        /\ frame[t].writes = 0
        /\ inbox = <<>>

\* C2: no motion command, absolute (M) or relative (R), is on the wire with a
\* target outside the configured limits: the target of every axis of the stage
\* it names, the coordinate of an M or the position plus the offset of an R,
\* lies within the bounds of that axis.
C2_MotionGuarded ==
    \A i \in DOMAIN inbox :
        inbox[i].token \in {MOVE, MOVREL} =>
            \A j \in DOMAIN inbox[i].coords :
                LET axis == inbox[i].coords[j][1]
                    val == inbox[i].coords[j][2]
                IN axis \in DOMAIN pos =>
                    /\ axis \in DOMAIN stage_limits
                    /\ LET target == IF inbox[i].token = MOVE THEN val
                                     ELSE pos[axis] + val
                       IN /\ stage_limits[axis][1] <= target
                          /\ target <= stage_limits[axis][2]

\* C8: set_stage_limits_relative with deltas that are all non-positive sets
\* the limits of each axis it names to (current - |delta|, current + |delta|),
\* current being the position the instrument reports, and leaves the limits of
\* the other axes as they were.
C8_RelativeLimits ==
    [][\A t \in DOMAIN pc :
        (/\ frame[t].op = "set_stage_limits_relative"
         /\ pc[t] = "sslr_set"
         /\ pc'[t] = "done") =>
            /\ frame'[t].outcome = "ok"
            /\ DOMAIN stage_limits' = DOMAIN stage_limits
            /\ \A a \in DOMAIN stage_limits :
                stage_limits'[a] =
                    IF a \in Keys(frame[t].coords)
                    THEN <<pos[a] - Abs(Lookup(frame[t].coords, a)),
                           pos[a] + Abs(Lookup(frame[t].coords, a))>>
                    ELSE stage_limits[a]]_vars

\* C9: lower <= upper for every axis of the stage limits, in every state
\* reached by set_stage_limits calls given lower <= upper and
\* set_stage_limits_relative calls given non-positive deltas.
C9_LimitsOrdered ==
    \A a \in DOMAIN stage_limits : stage_limits[a][1] <= stage_limits[a][2]

----------------------------------------------------------------------------
(* Properties of the transactions and of polling *)

\* C3: at most one thread is between the write of its command and the end of
\* the read of the response, and no command is written while an earlier one
\* is unanswered or its response unread.
C3_OneTransaction ==
    /\ Cardinality({t \in DOMAIN pc : pc[t] \in {"sc_write", "sc_read"}}) <= 1
    /\ Len(inbox) + Len(outbox) <= 1
    /\ \A t \in DOMAIN pc :
        pc[t] = "sc_read" =>
            /\ \A i \in DOMAIN inbox : inbox[i].by = t
            /\ \A i \in DOMAIN outbox : outbox[i].re.by = t

\* one thread awaits its response while another waits at the lock to send
C3_Witness ==
    \E t, u \in DOMAIN pc :
        /\ t # u
        /\ ~wrapped
        /\ pc[t] = "sc_read"
        /\ lock.owner = t
        /\ pc[u] = "send_command"

\* C4: the response send_command hands to a caller is the response the
\* instrument produced for the command that caller wrote.
C4_OwnResponse ==
    \A t \in DOMAIN pc :
        frame[t].resp # Absent =>
            /\ frame[t].resp[1].re = frame[t].cmd
            /\ frame[t].resp[1].re.by = t

\* a caller holds its response while the command of another caller is in
\* flight
C4_Witness ==
    \E t, u \in DOMAIN pc :
        /\ t # u
        /\ ~wrapped
        /\ frame[t].resp # Absent
        /\ frame[t].resp[1].re.by = t
        /\ pc[u] = "sc_read"

\* C5: once the stop event is set, wait_until_idle returns when its sleep
\* ends: it does not evaluate is_busy again.
C5_StopEndsWait ==
    [][\A t \in DOMAIN pc :
        (/\ frame[t].op = "wait_until_idle"
         /\ pc[t] = "sleep"
         /\ stop_event = "set") => pc'[t] \in {"sleep", "done"}]_vars

\* Thread t is inside a call that has completed a transaction and is on its
\* way to the next one.
BetweenTransactions(t) ==
    /\ pc[t] \in {"sleep", "is_busy", "status", "status_crisp", "send_command"}
    /\ frame[t].writes > 0

\* C6: between two transactions of one operation the caller holds no lock that
\* keeps the transaction of another thread from the transport: neither the
\* lock of the controller nor the lock of the TigerThread wrapper.
C6_NoLockBetweenTransactions ==
    \A t \in DOMAIN pc :
        BetweenTransactions(t) => (lock.owner # t /\ tt_lock # t)

\* C7: wait_until_idle returns at the first evaluation of is_busy that reports
\* not busy and at no other: after a BUSY status or an out-of-focus CRISP
\* state it sleeps and polls again, after a not-busy evaluation it returns
\* without another transaction. Every evaluation is one status transaction,
\* and with a CRISP address at most one CRISP transaction more.
C7_WaitUntilIdle ==
    /\ [][\A t \in DOMAIN pc :
            (frame[t].op = "wait_until_idle" /\ pc'[t] # pc[t]) =>
                LET tok == frame[t].resp[1].tok IN
                /\ pc[t] = "status_ret" =>
                     IF tok = "B" THEN pc'[t] = "sleep"
                     ELSE IF frame[t].crisp = Absent THEN pc'[t] = "done"
                     ELSE pc'[t] = "status_crisp"
                /\ pc[t] = "status_crisp_ret" =>
                     IF tok = "K" THEN pc'[t] = "sleep" ELSE pc'[t] = "done"
                /\ (pc'[t] = "done" /\ frame'[t].outcome = "ok") =>
                     /\ pc[t] \in {"status_ret", "status_crisp_ret"}
                     /\ frame'[t].writes = frame[t].writes
                     /\ frame'[t].polls = frame[t].polls
                     /\ inbox' = inbox]_vars
    /\ [](\A t \in DOMAIN pc :
            (/\ frame[t].op = "wait_until_idle"
             /\ pc[t] = "done"
             /\ frame[t].outcome = "ok") =>
                /\ frame[t].busy = FALSE
                /\ frame[t].polls >= 1
                /\ IF frame[t].crisp = Absent
                   THEN frame[t].writes = frame[t].polls
                   ELSE /\ frame[t].polls + 1 <= frame[t].writes
                        /\ frame[t].writes <= 2 * frame[t].polls)

\* a wait returned after polls that reported busy and one that did not
C7_Witness ==
    \E t \in DOMAIN pc :
        /\ pc[t] = "done"
        /\ frame[t].op = "wait_until_idle"
        /\ frame[t].outcome = "ok"
        /\ frame[t].crisp = Absent
        /\ frame[t].polls = 3
        /\ frame[t].writes = 3

----------------------------------------------------------------------------
(* Properties of the configuration of the limits *)

\* C11: the stage limits hold the X, Y and Z axes in every state. A table
\* without one of them is refused by set_stage_limits with
\* MissingParametersError and the limits stay as they were, and no move ends
\* with MissingParametersError.
C11_RequiredAxes ==
    /\ [](RequiredAxes \subseteq DOMAIN stage_limits)
    /\ [][\A t \in DOMAIN pc :
            (/\ pc[t] = "set_stage_limits"
             /\ pc'[t] # pc[t]
             /\ ~(RequiredAxes \subseteq DOMAIN frame[t].limits_arg)) =>
                /\ pc'[t] = "done"
                /\ frame'[t].outcome = "MissingParametersError"
                /\ stage_limits' = stage_limits]_vars
    /\ [](\A t \in DOMAIN pc :
            (pc[t] = "done" /\ frame[t].op \in {"move", "move_relative"}) =>
                frame[t].outcome # "MissingParametersError")

\* set_stage_limits refused a table and the limits still hold the three axes
C11_Witness ==
    \E t \in DOMAIN pc :
        /\ pc[t] = "done"
        /\ frame[t].op = "set_stage_limits"
        /\ frame[t].outcome = "MissingParametersError"
        /\ RequiredAxes \subseteq DOMAIN stage_limits

----------------------------------------------------------------------------
(* Properties of the failures of a transaction *)

\* the positions where an operation parses the response send_command returned
ParsePositions == {"status_ret", "status_crisp_ret", "where_ret"}

\* C12: the classifier runs on the response of every transaction once the lock
\* of the transport is released and before the operation parses the response.
\* A response that holds an error ends the operation with that error and with
\* no value parsed from it; no operation parses, and none returns, a response
\* the classifier has not passed.
C12_ErrorsClassified ==
    /\ [](\A t \in DOMAIN pc :
            pc[t] = "sc_classify" => (lock.owner # t /\ frame[t].resp # Absent))
    /\ [][\A t \in DOMAIN pc :
            (pc[t] = "sc_classify" /\ pc'[t] # pc[t]) =>
                IF frame[t].resp[1].kind = "err"
                THEN /\ pc'[t] = "done"
                     /\ frame'[t].outcome = "InstrumentError"
                     /\ frame'[t].status = frame[t].status
                     /\ frame'[t].busy = frame[t].busy
                     /\ frame'[t].curr_pos = <<>>
                ELSE /\ pc'[t] = frame[t].ret
                     /\ frame'[t].resp = frame[t].resp]_vars
    /\ [][\A t \in DOMAIN pc :
            (pc'[t] \in ParsePositions /\ pc[t] # pc'[t]) =>
                pc[t] = "sc_classify"]_vars
    /\ [](\A t \in DOMAIN pc :
            /\ pc[t] \in ParsePositions =>
                 (frame[t].resp # Absent /\ frame[t].resp[1].kind # "err")
            /\ (pc[t] = "done" /\ frame[t].outcome = "InstrumentError"
                    /\ frame[t].op \in {"status", "where"}) =>
                 (frame[t].status = "none" /\ frame[t].curr_pos = <<>>)
            /\ (pc[t] = "done" /\ frame[t].outcome = "ok") =>
                 /\ frame[t].op = "status" => frame[t].status \in {"BUSY", "IDLE"}
                 /\ frame[t].op = "where" => DOMAIN frame[t].curr_pos = RequiredAxes)

\* where() ended with the error of the instrument and returned no position
C12_Witness ==
    \E t \in DOMAIN pc :
        /\ pc[t] = "done"
        /\ frame[t].op = "where"
        /\ frame[t].outcome = "InstrumentError"
        /\ frame[t].writes = 1
        /\ frame[t].curr_pos = <<>>

\* the commands of thread t the transport holds, answered or not
InFlight(t) ==
    Cardinality({i \in DOMAIN inbox : inbox[i].by = t})
        + Cardinality({i \in DOMAIN outbox : outbox[i].re.by = t})

\* C13: a transaction writes its command once and reads one response, and
\* nothing is tried again: when the write or the read fails, or the response
\* holds an error, the operation ends with that failure without another write.
C13_NoRetry ==
    /\ [][\A t \in DOMAIN pc :
            /\ (pc'[t] = "send_command" /\ pc[t] # pc'[t]) =>
                 pc[t] \notin InSendCommand
            /\ (pc'[t] = "sc_write" /\ pc[t] # pc'[t]) => pc[t] = "send_command"
            /\ frame'[t].writes # frame[t].writes =>
                 \/ pc[t] = "sc_write" /\ frame'[t].writes = frame[t].writes + 1
                 \/ pc[t] \in {"idle", "done"} /\ frame'[t].writes = 0
            /\ (pc[t] = "sc_write" /\ pc'[t] # pc[t]) =>
                 IF link = "up"
                 THEN pc'[t] = "sc_read" /\ inbox' = Append(inbox, frame[t].cmd)
                 ELSE /\ pc'[t] = "done"
                      /\ frame'[t].outcome = "TransportError"
                      /\ inbox' = inbox
            /\ (pc[t] = "sc_read" /\ pc'[t] # pc[t]) =>
                 IF link = "up"
                 THEN /\ pc'[t] = "sc_classify"
                      /\ outbox = <<frame'[t].resp[1]>> \o outbox'
                 ELSE /\ pc'[t] = "done"
                      /\ frame'[t].outcome = "TransportError"
                      /\ outbox' = outbox
                      /\ inbox' = inbox
            /\ (pc[t] = "sc_classify" /\ pc'[t] # pc[t]
                    /\ frame[t].resp[1].kind = "err") =>
                 /\ pc'[t] = "done"
                 /\ frame'[t].outcome = "InstrumentError"
                 /\ inbox' = inbox]_vars
    /\ [](\A t \in DOMAIN pc :
            /\ InFlight(t) <= 1
            /\ (pc[t] = "done" /\ frame[t].op \in {"status", "where"}) =>
                 frame[t].writes = 1
            /\ (pc[t] = "done" /\ frame[t].op = "is_busy") =>
                 frame[t].writes \in {1, 2}
            /\ (pc[t] = "done" /\ frame[t].op = "wait_until_idle") =>
                 /\ frame[t].polls <= frame[t].writes
                 /\ frame[t].writes <= 2 * frame[t].polls)

\* status() ended with the failure of the read, its command written once
C13_Witness ==
    \E t \in DOMAIN pc :
        /\ pc[t] = "done"
        /\ frame[t].op = "status"
        /\ frame[t].outcome = "TransportError"
        /\ frame[t].writes = 1
        /\ InFlight(t) = 1

\* C14: the stop event never ends a transaction: a command that was written
\* is answered and its response read by the thread that wrote it before the
\* operation goes on or returns, with the stop event set or not; outside the
\* transaction no command of the thread is left with the transport.
C14_StopKeepsTransaction ==
    /\ [][\A t \in DOMAIN pc :
            /\ (pc[t] = "sc_write" /\ pc'[t] # pc[t]) =>
                 /\ pc'[t] = "sc_read"
                 /\ inbox' = Append(inbox, frame[t].cmd)
            /\ (pc[t] = "sc_read" /\ pc'[t] # pc[t]) =>
                 /\ pc'[t] = "sc_classify"
                 /\ frame'[t].resp # Absent
                 /\ frame'[t].resp[1].re = frame[t].cmd
                 /\ outbox = <<frame'[t].resp[1]>> \o outbox']_vars
    /\ [](\A t \in DOMAIN pc :
            InFlight(t) = IF pc[t] = "sc_read" THEN 1 ELSE 0)

\* with the stop event set, a wait has polled again after its sleep and has
\* read the response of that poll
C14_Witness ==
    \E t \in DOMAIN pc :
        /\ stop_event = "set"
        /\ frame[t].op = "wait_until_idle"
        /\ frame[t].polls >= 2
        /\ pc[t] = "sc_classify"
        /\ frame[t].resp # Absent
        /\ InFlight(t) = 0

----------------------------------------------------------------------------
(* Properties of the CRISP operations and of the encoder *)

\* C15: is_busy without a CRISP address sends the status query and nothing
\* else, and returns whether the status is BUSY. With a CRISP address it
\* returns true when the status is BUSY, and otherwise asks the CRISP unit at
\* that address for its state and returns whether that is OUT_OF_FOCUS.
C15_IsBusy ==
    /\ [][\A t \in DOMAIN pc :
            (frame[t].op = "is_busy" /\ pc'[t] # pc[t]) =>
                /\ pc[t] = "status_ret" =>
                     LET st == StatusOf(frame[t].resp[1].tok) IN
                     IF st = "BUSY" \/ frame[t].crisp = Absent
                     THEN /\ pc'[t] = "done"
                          /\ frame'[t].outcome = "ok"
                          /\ frame'[t].busy = (st = "BUSY")
                          /\ frame'[t].writes = 1
                     ELSE pc'[t] = "status_crisp"
                /\ pc[t] = "status_crisp" =>
                     /\ pc'[t] = "send_command"
                     /\ frame'[t].cmd.token = CRISP_GET_STATE
                     /\ frame[t].crisp = Some(2) => frame'[t].cmd.text = "2LK X?"
                /\ pc[t] = "status_crisp_ret" =>
                     /\ pc'[t] = "done"
                     /\ frame'[t].outcome = "ok"
                     /\ frame'[t].busy =
                            (CRISPStatusOf(frame[t].resp[1].tok) = "OUT_OF_FOCUS")
                     /\ frame'[t].writes = 2]_vars
    /\ [](\A t \in DOMAIN pc :
            (frame[t].op = "is_busy" /\ frame[t].crisp = Absent) =>
                /\ frame[t].cmd.token # CRISP_GET_STATE
                /\ frame[t].writes <= 1
                /\ (pc[t] = "done" /\ frame[t].outcome = "ok") =>
                     frame[t].busy = (frame[t].status = "BUSY"))

\* is_busy with a CRISP address returned true for a stage that is not busy
C15_Witness ==
    \E t \in DOMAIN pc :
        /\ pc[t] = "done"
        /\ frame[t].op = "is_busy"
        /\ frame[t].crisp # Absent
        /\ frame[t].outcome = "ok"
        /\ frame[t].status = "IDLE"
        /\ frame[t].busy = TRUE
        /\ frame[t].writes = 2

\* C16: crisp_get_set_state writes one command: the query '{address}LK X?'
\* without a value, '{address}UL' for the UNLOCK value, and the assignment
\* '{address}LK F={code}' for every other state code. No command on the wire
\* assigns -1 to LK F, and none assigns to LK X.
C16_CrispStateCommand ==
    /\ [][\A t \in DOMAIN pc :
            (pc[t] = "crisp_get_set_state" /\ pc'[t] # pc[t]) =>
                LET address == ToString(frame[t].crisp[1])
                    value == frame[t].value
                IN /\ pc'[t] = "send_command"
                   /\ frame'[t].cmd.text =
                        IF value = Absent THEN address \o "LK X?"
                        ELSE IF value[1].int = -1 THEN address \o "UL"
                        ELSE address \o "LK F=" \o ToString(value[1].int)]_vars
    /\ [](\A t \in DOMAIN pc :
            frame[t].op = "crisp_get_set_state" =>
                /\ frame[t].writes <= 1
                /\ pc[t] = "done" => frame[t].writes = 1)
    /\ [](\A i \in DOMAIN inbox :
            LET text == inbox[i].text IN
            /\ \A a \in CardAddresses :
                /\ text # ToString(a) \o "LK F=-1"
                /\ Len(text) > Len(ToString(a) \o "LK X") =>
                     SubSeq(text, 1, Len(ToString(a) \o "LK X=")) #
                        ToString(a) \o "LK X="
            /\ inbox[i].by \in DOMAIN pc
            /\ frame[inbox[i].by].op = "crisp_get_set_state" =>
                 \E a \in CardAddresses :
                    \/ text \in {ToString(a) \o "LK X?", ToString(a) \o "UL"}
                    \/ \E c \in StateCodes \ {-1} :
                            text = ToString(a) \o "LK F=" \o ToString(c))

\* the UNLOCK value was written as the bare token, and is on the wire
C16_Witness ==
    \E t \in DOMAIN pc :
        /\ pc[t] = "sc_read"
        /\ frame[t].op = "crisp_get_set_state"
        /\ frame[t].value = Some(PyInt(UNLOCK))
        /\ frame[t].writes = 1
        /\ \E i \in DOMAIN inbox : inbox[i].text = "2UL"

\* the rendering of one axis: bare for a flag, an assignment of the numeral, cut
\* to 16 characters, for any other value
Rendered(coordinate, flags) ==
    IF coordinate[2].type = "str" /\ coordinate[2].text \in flags
    THEN coordinate[1] \o coordinate[2].text
    ELSE coordinate[1] \o "=" \o
            (IF Len(Str(coordinate[2])) > 16 THEN SubSeq(Str(coordinate[2]), 1, 16)
             ELSE Str(coordinate[2]))

\* the renderings of the axes in the order of the map, each after one space
RECURSIVE RenderedAxes(_, _)
RenderedAxes(coordinates, flags) ==
    IF coordinates = <<>> THEN ""
    ELSE RenderedAxes(SubSeq(coordinates, 1, Len(coordinates) - 1), flags)
            \o " " \o Rendered(coordinates[Len(coordinates)], flags)

\* C17: the command of led and of set_home is the token followed by the
\* renderings of the axes, 'AXIS=value' or the bare 'AXISvalue' of a flag, each
\* after a single space and in the order of the map, and it starts with the
\* card address whenever one is given, the address 0 too;
\* format(MOVE, {X: 1234, Y: '+'}, ['+']) is 'M X=1234 Y+'.
C17_FormatRendering ==
    /\ [][\A t \in DOMAIN pc :
            (pc[t] \in {"led", "set_home"} /\ pc'[t] # pc[t]) =>
                frame'[t].cmd.text =
                    (IF frame[t].crisp # Absent THEN ToString(frame[t].crisp[1]) ELSE "")
                    \o (IF pc[t] = "led" THEN "LED" ELSE "HM")
                    \o RenderedAxes(frame[t].coords,
                                    IF pc[t] = "led" THEN {} ELSE {"+"})]_vars
    /\ [](Format(MOVE, <<<<"X", PyInt(1234)>>, <<"Y", PyStr("+")>>>>, {"+"}, Absent)
            = "M X=1234 Y+")

\* the positions from which a CRISP operation encodes its command
CrispEntries == {"crisp_get_set_state"} \cup CrispGetSetOps \cup CrispGetOps

\* the numerals of a map that are too long for the instrument
LongNumerals(coordinates, flags) ==
    {i \in DOMAIN coordinates :
        /\ ~(coordinates[i][2].type = "str" /\ coordinates[i][2].text \in flags)
        /\ Len(Str(coordinates[i][2])) > 16}

\* C18: every command an operation encodes carries each numeral whole when its
\* text has at most 16 characters and cut to its first 16 characters when it
\* has more, in the commands of Command.format (led, set_home) and in those of
\* Command.format_crisp (the CRISP operations) alike, and a warning is logged
\* for each numeral that was cut and for no other.
C18_Truncation ==
    [][\A t \in DOMAIN pc :
        /\ (pc[t] \in {"led", "set_home"} /\ pc'[t] # pc[t]) =>
             LET flags == IF pc[t] = "led" THEN {} ELSE {"+"}
                 body == (IF pc[t] = "led" THEN "LED" ELSE "HM")
                            \o RenderedAxes(frame[t].coords, flags)
             IN /\ \/ frame'[t].cmd.text = body
                   \/ /\ frame[t].crisp # Absent
                      /\ frame'[t].cmd.text = ToString(frame[t].crisp[1]) \o body
                /\ frame'[t].warnings =
                        Cardinality(LongNumerals(frame[t].coords, flags))
        /\ (pc[t] \in CrispEntries /\ pc'[t] # pc[t] /\ frame[t].value # Absent
                /\ frame[t].value # Some(PyInt(UNLOCK))) =>
             LET text == Str(frame[t].value[1])
                 n == Len(frame'[t].cmd.text)
             IN IF Len(text) > 16
                THEN /\ SubSeq(frame'[t].cmd.text, n - 16, n) =
                            "=" \o SubSeq(text, 1, 16)
                     /\ frame'[t].warnings = 1
                ELSE /\ SubSeq(frame'[t].cmd.text, n - Len(text), n) = "=" \o text
                     /\ frame'[t].warnings = 0]_vars

\* the positions where a CRISP operation parses the numeral of the response
NumeralReturns == {op \o "_ret" : op \in CrispGetSetOps \cup CrispGetOps}

\* C19: every CRISP operation that reads an int or a float (LED intensity,
\* update rate, error number, SNR, lock range, objective NA, loop gain, number
\* of averages) returns from parsing a response that passed the classifier
\* without raising, and returns None, not zero or any other number, when the
\* response holds no numeral.
C19_UnparsableIsNone ==
    [][\A t \in DOMAIN pc :
        (pc[t] \in NumeralReturns /\ pc'[t] # pc[t]) =>
            /\ pc'[t] = "done"
            /\ frame'[t].outcome = "ok"
            /\ ~HasDigit(frame[t].resp[1].tok) =>
                 frame'[t].result = Some(PyNone)]_vars

----------------------------------------------------------------------------
(* Properties of concurrent configuration and motion *)

\* C20: while one thread moves the stage and another configures the limits,
\* every M command is written to the transport with all its coordinates
\* within the stage limits as they are at the write.
C20_MoveWithinLimitsAtWrite ==
    [][\A t \in DOMAIN pc :
        (/\ pc[t] = "sc_write"
         /\ frame[t].cmd.token = MOVE
         /\ inbox' = Append(inbox, frame[t].cmd)) =>
            ~Unsafe(frame[t].cmd.coords, stage_limits)]_vars

\* the threads inside the with block of send_command
Transacting == {t \in DOMAIN pc : pc[t] \in {"sc_write", "sc_read"}}

\* the outcomes with which send_command raises
Failures == {"TransportError", "InstrumentError"}

\* C21: the transport lock is free whenever no transaction is in flight, also
\* after a failure: only a thread inside the with block of send_command owns
\* the lock; when the write or the read of the transport raises, or the error
\* classifier raises, the lock is released by the time the exception reaches
\* the caller; and a thread entering send_command while no transaction is in
\* flight finds the lock available, whatever failed before.
C21_LockFreeAfterFailure ==
    /\ [](/\ \A t \in DOMAIN pc : lock.owner = t => t \in Transacting
          /\ Transacting = {} => lock = Free
          /\ \A t \in DOMAIN pc :
                (pc[t] = "done" /\ frame[t].outcome \in Failures) =>
                    lock.owner # t
          /\ \A t \in DOMAIN pc :
                (pc[t] = "send_command" /\ Transacting = {}) => LockAvailable(t))
    /\ [][\A t \in DOMAIN pc :
            (/\ pc[t] \in InSendCommand
             /\ pc'[t] = "done"
             /\ frame'[t].outcome \in Failures) =>
                /\ lock'.owner # t
                /\ (lock.owner = t => lock' = Free)]_vars

\* one thread's transaction ended with the failure of the transport, and the
\* other thread has since taken the lock for a transaction of its own
C21_Witness ==
    \E t, u \in DOMAIN pc :
        /\ t # u
        /\ pc[t] = "done"
        /\ frame[t].outcome = "TransportError"
        /\ link = "down"
        /\ pc[u] = "sc_write"
        /\ lock = [owner |-> u, count |-> 1]

====
